---- MODULE Spec2Model ----
(***************************************************************************)
(* Checkout core of tienda-calzados-marilo: stock reservation and          *)
(* restoration (orders/utils.py), order creation (orders/views.py,         *)
(* carrito/views.py, orders/utils.py), the checkout steps, the payment     *)
(* confirmations (Stripe webhook and return views) and the cleanup of      *)
(* expired orders.                                                         *)
(*                                                                         *)
(* The database is modelled at READ COMMITTED with row locks: the variables*)
(* stock and orders hold the committed rows; a transaction's writes are    *)
(* applied in the step that commits it; select_for_update() takes a row    *)
(* lock that is held until the transaction ends and blocks other lockers   *)
(* and writers of that row; a plain read never blocks.  Every request is   *)
(* handled by a worker p \in Procs; the workers interleave between their   *)
(* database statements.                                                    *)
(***************************************************************************)
EXTENDS Integers, Sequences, FiniteSets, TLC

\* ------------------------------------------------------------------ bounds
\* Largest initial stock of a TallaZapato row.
MaxStock == 2
\* Number of requests the workers handle in one behaviour.
MaxRequests == 3
\* The clock advances TickStep minutes at a time, up to MaxTime.
TickStep == 6
MaxTime == 24

\* ------------------------------------------------------- program constants
\* reserve_stock: "if cantidad > 10000" (reasonable upper limit).
MaxCantidad == 10000
\* create order: max_retries = 5.
max_retries == 5
\* EnvConfig defaults, in minutes.
CHECKOUT_FORM_WINDOW_MINUTES == 10
PAYMENT_WINDOW_MINUTES == 5
\* EnvConfig.get_order_reservation_minutes: form + payment + 5 (buffer).
get_order_reservation_minutes == CHECKOUT_FORM_WINDOW_MINUTES + PAYMENT_WINDOW_MINUTES + 5

\* ------------------------------------------------------------------ domains
Procs == {1, 2}
\* (zapato, talla) pairs a cart line can name; Tallas have a TallaZapato row,
\* the remaining one has none.
AllUnits == {1, 2, 3}
Tallas == {1, 2}
OrderIds == {1, 2}
\* request.user and Order.usuario: 0 is AnonymousUser, and no owner (None).
Users == {0, 1, 2}
\* Holder of a row lock nobody holds.
NoProc == 0

\* A cart line: item["talla"] (with its zapato) and item["cantidad"].
\* Well-formed lines for the existing rows, a line for the row that does not
\* exist, and lines with a quantity the validation loop rejects.
Lines == [talla : Tallas, cantidad : {1, 2}]
         \cup {[talla |-> 3, cantidad |-> 1]}
         \cup {[talla |-> 1, cantidad |-> 0], [talla |-> 1, cantidad |-> MaxCantidad + 1]}
\* cart_items: one or two lines.
Carts == {<<l>> : l \in Lines} \cup {<<l1, l2>> : l1 \in Lines, l2 \in Lines}

VARIABLES
    stock,       \* TallaZapato.stock of each committed row
    stock0,      \* the stock each row started with (never changes)
    tallas,      \* the (zapato, talla) pairs that have a TallaZapato row
    zapatos,     \* per row, precio and precioOferta of its Zapato
    lockTalla,   \* row lock of each TallaZapato row: its holder, or NoProc
    orders,      \* the committed Order rows with their OrderItems
    lockOrder,   \* row lock of each Order row: its holder, or NoProc
    emails,      \* per order, the calls of send_order_confirmation_email
    now,         \* wall clock, minutes
    pc,          \* per worker: the statement it stands before ("idle": none)
    loc,         \* per worker: the local variables of the handler it runs
    outcome,     \* per worker: how its last finished request ended
    started,     \* requests started so far
    reservedSum, \* history: per row, the quantity taken by committed reservations
    hist         \* history: per order, what has happened to it

vars == <<stock, stock0, tallas, zapatos, lockTalla, orders, lockOrder, emails, now,
          pc, loc, outcome, started, reservedSum, hist>>

\* ------------------------------------------------------------------ helpers
ZeroItems == [u \in AllUnits |-> 0]

\* precio_unitario, total and descuento of an OrderItem; zeros where the
\* order has no item.
NoPrecios == <<0, 0, 0>>
ZeroPrecios == [u \in AllUnits |-> NoPrecios]

\* Mutant: no Zapato is taken to have an offer.
TieneOferta_never(z) == FALSE

\* precioOferta is null (<<>>) or a number (<<n>>).  "if zapato.precioOferta":
\* neither null nor 0.
TieneOferta(z) == z.oferta # <<>> /\ z.oferta[1] # 0

\* The columns the order creation stores on an OrderItem of cantidad n of
\* zapato z: precio_unitario (the offer price if there is one), total and
\* descuento.
ItemPrecios(z, n) ==
    LET precio_unitario == IF TieneOferta(z) THEN z.oferta[1] ELSE z.precio
    IN <<precio_unitario, precio_unitario * n,
         IF TieneOferta(z) THEN (z.precio - precio_unitario) * n ELSE 0>>

\* The Zapato every row starts with: priced 100, no offer.
ListZapato == [precio |-> 100, oferta |-> <<>>]

\* An Order row (Order model) with its OrderItems (quantity per (zapato, talla);
\* unique_together makes that a function).
NoOrder == [exists |-> FALSE, pagado |-> FALSE, created |-> 0, filled |-> {},
            metodo |-> "tarjeta", usuario |-> 0, items |-> ZeroItems, precios |-> ZeroPrecios]

\* The local variables of a handler; req holds the inputs of its request.
IdleLoc == [kind |-> "none", cart |-> <<>>, i |-> 0, attempt |-> 0, oid |-> 0,
            snap |-> NoOrder, todo |-> <<>>, batch |-> {}, req |-> <<>>]

\* History of an order id: whether it was given to an Order row, whether a
\* Stripe Checkout session exists for it, the unpaid -> paid transitions
\* written for it, the confirmations finished for it, and whether a cleanup
\* has deleted it.
NoHist == [used |-> FALSE, session |-> FALSE, paidCount |-> 0, confirmed |-> 0,
           swept |-> FALSE]

\* Releasing every row lock worker p holds (its transaction ends).
ReleaseTalla(p) == [u \in AllUnits |-> IF lockTalla[u] = p THEN NoProc ELSE lockTalla[u]]
ReleaseOrder(p) == [o \in OrderIds |-> IF lockOrder[o] = p THEN NoProc ELSE lockOrder[o]]

\* Mutant: the validation loop lets a quantity of 0 through.
CantidadValida_zero(c) == \A k \in 1..Len(c) : c[k].cantidad >= 0 /\ c[k].cantidad <= MaxCantidad

\* The per-line validation loop of reserve_stock (cantidad <= 0, cantidad > 10000).
CantidadValida(c) == \A k \in 1..Len(c) : c[k].cantidad > 0 /\ c[k].cantidad <= MaxCantidad

RECURSIVE Deduct(_, _, _)
\* The deduct loop of reserve_stock from line k on: stock -= cantidad, line by line.
Deduct(s, c, k) ==
    IF k > Len(c) THEN s
    ELSE Deduct([s EXCEPT ![c[k].talla] = @ - c[k].cantidad], c, k + 1)

RECURSIVE Requested(_, _, _)
\* Total cantidad the lines of cart c from k on ask of row u.
Requested(c, u, k) ==
    IF k > Len(c) THEN 0
    ELSE (IF c[k].talla = u THEN c[k].cantidad ELSE 0) + Requested(c, u, k + 1)

\* How a request ended: the result, and for a rejected cart the row and the
\* line it was rejected at.
Res(result) == [result |-> result, talla |-> 0, line |-> 0, req |-> <<>>]
Rejected(result, talla, line) == [result |-> result, talla |-> talla, line |-> line, req |-> <<>>]
\* How a request with inputs req was answered.
Answered(result, req) == [result |-> result, talla |-> 0, line |-> 0, req |-> req]

Finish(p, r) ==
    /\ pc' = [pc EXCEPT ![p] = "idle"]
    /\ loc' = [loc EXCEPT ![p] = IdleLoc]
    /\ outcome' = [outcome EXCEPT ![p] = r]

\* -------------------------------------------------- calculate_order_prices
\* Decimal.quantize(Decimal("0.01")) of n / d hundredths, for n >= 0: the
\* nearest hundredth, a tie going to the even one (ROUND_HALF_EVEN, the
\* default context).
RoundHalfEven(n, d) ==
    LET q == n \div d
        r == n % d
    IN IF 2 * r < d THEN q
       ELSE IF 2 * r > d THEN q + 1
       ELSE IF q % 2 = 0 THEN q ELSE q + 1

RECURSIVE SubtotalFrom(_, _, _)
\* The loop over cart_items from line k on: subtotal += precio_unitario *
\* cantidad, in cents, with the prices zs.
SubtotalFrom(c, zs, k) ==
    IF k > Len(c) THEN 0
    ELSE LET z == zs[c[k].talla]
         IN 100 * (IF TieneOferta(z) THEN z.oferta[1] ELSE z.precio) * c[k].cantidad
            + SubtotalFrom(c, zs, k + 1)

RECURSIVE DescuentoFrom(_, _, _)
\* The same loop: descuento_total += (precio_original - precio_unitario) *
\* cantidad for the lines with an offer, in cents.
DescuentoFrom(c, zs, k) ==
    IF k > Len(c) THEN 0
    ELSE LET z == zs[c[k].talla]
         IN (IF TieneOferta(z) THEN 100 * (z.precio - z.oferta[1]) * c[k].cantidad ELSE 0)
            + DescuentoFrom(c, zs, k + 1)

\* calculate_order_prices(cart_items, delivery_cost, tax_rate): amounts in
\* cents, tax_rate in percent.
calculate_order_prices(c, delivery_cost, tax_rate) ==
    LET subtotal == SubtotalFrom(c, zapatos, 1)
        base_imponible == subtotal + delivery_cost
        impuestos == RoundHalfEven(base_imponible * tax_rate, 100)
    IN [subtotal |-> subtotal, impuestos |-> impuestos, coste_entrega |-> delivery_cost,
        total |-> subtotal + delivery_cost + impuestos,
        descuento |-> DescuentoFrom(c, zapatos, 1)]

\* A handler computes the prices of cart c.
prices_request(p, c, delivery_cost, tax_rate) ==
    /\ pc[p] = "idle"
    /\ started < MaxRequests
    /\ started' = started + 1
    /\ Finish(p, Answered("prices", <<c, delivery_cost, tax_rate,
                                      calculate_order_prices(c, delivery_cost, tax_rate)>>))
    /\ UNCHANGED <<stock, stock0, zapatos, tallas, lockTalla, orders, lockOrder, emails, now,
                   reservedSum, hist>>

\* ------------------------------------------------------------ reserve_stock
\* A call of reserve_stock(cart_items) in a transaction of its own: the
\* validation loop over the quantities, before any row is read.
reserve_stock_begin(p, c) ==
    /\ pc[p] = "idle"
    /\ started < MaxRequests
    /\ started' = started + 1
    /\ IF CantidadValida(c)
       THEN /\ pc' = [pc EXCEPT ![p] = "check"]
            /\ loc' = [loc EXCEPT ![p] = [IdleLoc EXCEPT !.kind = "reserve", !.cart = c, !.i = 1]]
            /\ outcome' = [outcome EXCEPT ![p] = Res("running")]
       ELSE Finish(p, Res("InvalidQuantity"))
    /\ UNCHANGED <<stock, stock0, zapatos, tallas, lockTalla, orders, lockOrder, emails, now,
                   reservedSum, hist>>

\* Mutant: the row is read without select_for_update().
CanLock_nolock(p, u) == TRUE

\* Whether worker p may take the row lock of u now (select_for_update().get
\* blocks while another transaction holds it).
CanLock(p, u) == lockTalla[u] \in {NoProc, p}

\* One iteration of the check loop: select_for_update().get of the line's row,
\* then the comparison with the stock read under the lock.  A failure raises
\* ValueError, which rolls the transaction back.
reserve_stock_check(p) ==
    /\ pc[p] = "check"
    /\ LET c == loc[p].cart
           l == c[loc[p].i]
       IN IF l.talla \notin tallas
          THEN /\ Finish(p, Rejected("UnknownSize", l.talla, loc[p].i))
               /\ lockTalla' = ReleaseTalla(p)
          ELSE /\ CanLock(p, l.talla)
               /\ IF stock[l.talla] < l.cantidad
                  THEN /\ Finish(p, Rejected("InsufficientStock", l.talla, loc[p].i))
                       /\ lockTalla' = ReleaseTalla(p)
                  ELSE /\ lockTalla' = [lockTalla EXCEPT ![l.talla] = p]
                       /\ pc' = [pc EXCEPT ![p] = IF loc[p].i = Len(c) THEN "deduct" ELSE "check"]
                       /\ loc' = [loc EXCEPT ![p].i = IF loc[p].i = Len(c) THEN 0 ELSE @ + 1]
                       /\ UNCHANGED outcome
    /\ UNCHANGED <<stock, stock0, zapatos, tallas, orders, lockOrder, emails, now, started,
                   reservedSum, hist>>

\* The deduct loop and the commit of reserve_stock's own transaction.
reserve_stock_deduct(p) ==
    /\ pc[p] = "deduct"
    /\ loc[p].kind = "reserve"
    /\ stock' = Deduct(stock, loc[p].cart, 1)
    /\ reservedSum' = [u \in AllUnits |-> reservedSum[u] + Requested(loc[p].cart, u, 1)]
    /\ lockTalla' = ReleaseTalla(p)
    /\ Finish(p, Res("ok"))
    /\ UNCHANGED <<stock0, zapatos, tallas, orders, lockOrder, emails, now, started, hist>>

\* ----------------------------------------------------------- order creation
\* The id the database gives the next Order row (ids are never reused).
NextOrderId == CHOOSE o \in OrderIds : ~hist[o].used /\ \A o2 \in OrderIds : ~hist[o2].used => o <= o2

\* The handlers that create an order.  "view": CheckoutStartView.get,
\* checkout_from_carrito and the buy-now view: reserve_stock and the Order
\* insert share one transaction, the OrderItems are inserted after its commit.
\* "util": create_order_from_items, whose outer transaction also holds the
\* OrderItem inserts.
CreateKinds == {"view", "util"}

\* Start of an order creation with cart c: the first attempt's reserve_stock
\* begins with its validation loop (its ValueError is caught and reported).
create_order_begin(p, c, k) ==
    /\ pc[p] = "idle"
    /\ started < MaxRequests
    /\ Cardinality({o \in OrderIds : hist[o].used})
         + Cardinality({q \in Procs : loc[q].kind \in CreateKinds /\ loc[q].oid = 0})
       < Cardinality(OrderIds)
    /\ started' = started + 1
    /\ IF CantidadValida(c)
       THEN /\ pc' = [pc EXCEPT ![p] = "check"]
            /\ loc' = [loc EXCEPT ![p] = [IdleLoc EXCEPT !.kind = k, !.cart = c, !.i = 1]]
            /\ outcome' = [outcome EXCEPT ![p] = Res("running")]
       ELSE Finish(p, Res("InvalidQuantity"))
    /\ UNCHANGED <<stock, stock0, zapatos, tallas, lockTalla, orders, lockOrder, emails, now,
                   reservedSum, hist>>

\* The Order row Order.objects.create inserts: unpaid, blank contact and
\* address fields, fecha_creacion = now (auto_now_add); the shopper is a guest.
NewOrder == [exists |-> TRUE, pagado |-> FALSE, created |-> now, filled |-> {},
             metodo |-> "tarjeta", usuario |-> 0, items |-> ZeroItems, precios |-> ZeroPrecios]

\* Order.objects.create succeeds, after the deduct loop of reserve_stock.  In
\* a view the inner transaction commits here: the decremented stock and the
\* Order row become visible and the row locks are released.  In
\* create_order_from_items only the savepoint is released: nothing is visible
\* and the locks stay until the outer transaction ends.
order_insert(p) ==
    /\ pc[p] = "deduct"
    /\ loc[p].kind \in CreateKinds
    /\ LET o == NextOrderId
       IN /\ hist' = [hist EXCEPT ![o].used = TRUE]
          /\ pc' = [pc EXCEPT ![p] = "items"]
          /\ loc' = [loc EXCEPT ![p].oid = o, ![p].i = 1, ![p].snap = NewOrder]
          /\ IF loc[p].kind = "view"
             THEN /\ stock' = Deduct(stock, loc[p].cart, 1)
                  /\ reservedSum' = [u \in AllUnits |-> reservedSum[u] + Requested(loc[p].cart, u, 1)]
                  /\ orders' = [orders EXCEPT ![o] = NewOrder]
                  /\ lockTalla' = ReleaseTalla(p)
             ELSE UNCHANGED <<stock, reservedSum, orders, lockTalla>>
    /\ UNCHANGED <<stock0, zapatos, tallas, lockOrder, emails, now, outcome, started>>

\* Mutant: the except clause never gives up.
LastAttempt_never(a) == FALSE

\* "if attempt == max_retries - 1" of the IntegrityError clause: attempts are
\* numbered from 0 by range(max_retries).
LastAttempt(a) == a = max_retries - 1

\* Mutant: the deduction of the failed attempt is kept.
RolledBack_kept(s, c) == Deduct(s, c, 1)

\* The stock rows after the attempt's transaction.atomic() block is left by
\* the IntegrityError: the deduction of cart c made inside it is undone, so
\* the rows are those of before the attempt.
RolledBack(s, c) == s

\* Order.objects.create raises IntegrityError: the generated codigo_pedido is
\* that of an existing order.  The inner transaction is rolled back (the
\* deduction is undone, its row locks are released); the loop retries with a
\* new code unless this was attempt max_retries - 1.
order_insert_collision(p) ==
    /\ pc[p] = "deduct"
    /\ loc[p].kind \in CreateKinds
    /\ \E o \in OrderIds : orders[o].exists
    /\ stock' = RolledBack(stock, loc[p].cart)
    /\ lockTalla' = ReleaseTalla(p)
    /\ IF LastAttempt(loc[p].attempt)
       THEN Finish(p, Res("CodeGenerationExhausted"))
       ELSE /\ pc' = [pc EXCEPT ![p] = "check"]
            /\ loc' = [loc EXCEPT ![p].attempt = @ + 1, ![p].i = 1]
            /\ UNCHANGED outcome
    /\ UNCHANGED <<stock0, zapatos, tallas, orders, lockOrder, emails, now, started,
                   reservedSum, hist>>

\* OrderItem.objects.create for line i of the cart, in a view (autocommit).
\* The insert waits while a cleanup holds the Order row's lock.  It raises
\* IntegrityError when the Order row is gone (foreign key) or the order
\* already has an item for the (zapato, talla) (unique_together); the views
\* catch only ValueError, so the request ends there with what was committed.
order_item_insert_view(p) ==
    /\ pc[p] = "items"
    /\ loc[p].kind = "view"
    /\ LET o == loc[p].oid
           l == loc[p].cart[loc[p].i]
       IN /\ lockOrder[o] = NoProc
          /\ IF ~orders[o].exists \/ orders[o].items[l.talla] > 0
             THEN /\ Finish(p, Rejected("ItemInsertFailed", l.talla, loc[p].i))
                  /\ UNCHANGED orders
             ELSE /\ orders' = [orders EXCEPT ![o].items[l.talla] = l.cantidad,
                                               ![o].precios[l.talla] = ItemPrecios(zapatos[l.talla], l.cantidad)]
                  /\ IF loc[p].i = Len(loc[p].cart)
                     THEN Finish(p, Res("ok"))
                     ELSE /\ loc' = [loc EXCEPT ![p].i = @ + 1]
                          /\ UNCHANGED <<pc, outcome>>
    /\ UNCHANGED <<stock, stock0, zapatos, tallas, lockTalla, lockOrder, emails, now, started,
                   reservedSum, hist>>

\* OrderItem.objects.create for line i of the cart inside the transaction of
\* create_order_from_items.  An IntegrityError (unique_together) is caught by
\* "except Exception" and the function returns, but the failed save has
\* marked the transaction for rollback: leaving the atomic block undoes the
\* reservation and the Order insert.  After the last item the function
\* returns and the transaction commits stock, Order and OrderItems together.
order_item_insert_util(p) ==
    /\ pc[p] = "items"
    /\ loc[p].kind = "util"
    /\ LET o == loc[p].oid
           l == loc[p].cart[loc[p].i]
           row == [loc[p].snap EXCEPT !.items[l.talla] = l.cantidad,
                                      !.precios[l.talla] = ItemPrecios(zapatos[l.talla], l.cantidad)]
       IN IF loc[p].snap.items[l.talla] > 0
          THEN /\ Finish(p, Rejected("ItemInsertFailed", l.talla, loc[p].i))
               /\ lockTalla' = ReleaseTalla(p)
               /\ UNCHANGED <<stock, reservedSum, orders>>
          ELSE IF loc[p].i = Len(loc[p].cart)
               THEN /\ stock' = Deduct(stock, loc[p].cart, 1)
                    /\ reservedSum' = [u \in AllUnits |-> reservedSum[u] + Requested(loc[p].cart, u, 1)]
                    /\ orders' = [orders EXCEPT ![o] = row]
                    /\ lockTalla' = ReleaseTalla(p)
                    /\ Finish(p, Res("ok"))
               ELSE /\ loc' = [loc EXCEPT ![p].i = @ + 1, ![p].snap = row]
                    /\ UNCHANGED <<stock, reservedSum, orders, lockTalla, pc, outcome>>
    /\ UNCHANGED <<stock0, zapatos, tallas, lockOrder, emails, now, started, hist>>

\* ------------------------------------------- restore_stock, cleanup_expired_orders
\* Mutant: the filter selects nothing.
Expired_never(row) == FALSE

\* Mutant: the filter does not look at pagado.
Expired_anypaid(row) == row.exists /\ row.created < now - get_order_reservation_minutes

\* Mutant: the filter uses fecha_creacion__lte.
Expired_atboundary(row) == row.exists /\ ~row.pagado /\ row.created <= now - get_order_reservation_minutes

\* The filter of cleanup_expired_orders: unpaid and fecha_creacion before
\* now - reservation minutes.
Expired(row) == row.exists /\ ~row.pagado /\ row.created < now - get_order_reservation_minutes

RECURSIVE RestoredQty(_, _)
\* Mutant: restore_stock adds one pair per item, whatever its cantidad.
RestoredQty_one(b, u) ==
    IF b = {} THEN 0
    ELSE LET o == CHOOSE x \in b : TRUE
         IN (IF orders[o].items[u] > 0 THEN 1 ELSE 0) + RestoredQty(b \ {o}, u)

\* Total cantidad of the OrderItems of the orders of batch b for row u.
RestoredQty(b, u) ==
    IF b = {} THEN 0
    ELSE LET o == CHOOSE x \in b : TRUE
         IN orders[o].items[u] + RestoredQty(b \ {o}, u)

\* What restore_stock does for the orders of batch b: for each row with an
\* item, in turn, the row to lock and the cantidad to add to its stock.
RECURSIVE RestoreRows(_, _)
RestoreRows(b, us) ==
    IF us = {} THEN <<>>
    ELSE LET u == CHOOSE x \in us : \A y \in us : x <= y
         IN (IF RestoredQty(b, u) > 0 THEN <<[talla |-> u, cantidad |-> RestoredQty(b, u)]>> ELSE <<>>)
            \o RestoreRows(b, us \ {u})

\* Mutant: the row is taken to exist.
RowExists_any(u) == TRUE

\* TallaZapato.objects.select_for_update().get(zapato, talla) finds a row
\* (otherwise DoesNotExist).
RowExists(u) == u \in tallas

\* Mutant: deleted_count counts the restored items, as restored_items does.
CleanupReport_items(b, rows) ==
    <<Len(rows), [u \in AllUnits |-> IF RowExists(u) THEN Requested(rows, u, 1) ELSE 0]>>

\* What cleanup_expired_orders returns: deleted_count, incremented at every
\* order.delete(), and stock_details, the cantidad of the items restore_stock
\* reported (those whose row it found) summed per (zapato, talla).
CleanupReport(b, rows) ==
    <<Cardinality(b), [u \in AllUnits |-> IF RowExists(u) THEN Requested(rows, u, 1) ELSE 0]>>

\* The commit of a cleanup over batch b with restorations rows: every
\* cantidad is added back to its TallaZapato row (a row that no longer exists
\* is skipped) and the orders are deleted with their items.
cleanup_commit(p, b, rows) ==
    /\ stock' = [u \in AllUnits |-> IF RowExists(u) THEN stock[u] + Requested(rows, u, 1) ELSE stock[u]]
    /\ orders' = [o \in OrderIds |-> IF o \in b THEN NoOrder ELSE orders[o]]
    /\ hist' = [o \in OrderIds |-> IF o \in b THEN [hist[o] EXCEPT !.swept = TRUE] ELSE hist[o]]
    /\ lockTalla' = ReleaseTalla(p)
    /\ lockOrder' = [o \in OrderIds |-> IF o \in b \/ lockOrder[o] = p THEN NoProc ELSE lockOrder[o]]
    /\ Finish(p, Answered("ok", CleanupReport(b, rows)))

\* Mutant: the expired orders are selected without select_for_update().
OrderLocksFree_nolock(b) == TRUE

\* Whether the row locks of the orders of b can be taken now.
OrderLocksFree(b) == \A o \in b : lockOrder[o] = NoProc

\* A run of cleanup_expired_orders: the select_for_update() query over the
\* expired unpaid orders, which waits for the row locks of the orders it
\* selects, and the items restore_stock reads for them.
cleanup_run(p) ==
    /\ pc[p] = "idle"
    /\ LET b == {o \in OrderIds : Expired(orders[o])}
           rows == RestoreRows(b, AllUnits)
       IN /\ OrderLocksFree(b)
          /\ IF rows = <<>>
             THEN cleanup_commit(p, b, rows)
             ELSE /\ lockOrder' = [o \in OrderIds |-> IF o \in b THEN p ELSE lockOrder[o]]
                  /\ pc' = [pc EXCEPT ![p] = "restore"]
                  /\ loc' = [loc EXCEPT ![p] = [IdleLoc EXCEPT !.kind = "cleanup", !.batch = b,
                                                  !.todo = rows, !.i = 1]]
                  /\ outcome' = [outcome EXCEPT ![p] = Res("running")]
                  /\ UNCHANGED <<stock, orders, hist, lockTalla>>
    /\ UNCHANGED <<stock0, zapatos, tallas, emails, now, reservedSum>>

\* A cleanup run started by hand (the administrator's cleanup view, a test).
cleanup_select(p) ==
    /\ started < MaxRequests
    /\ started' = started + 1
    /\ cleanup_run(p)

\* A cleanup run started by the scheduler, every CLEANUP_CRON_MINUTES.
cleanup_scheduled(p) ==
    /\ cleanup_run(p)
    /\ UNCHANGED started

\* restore_stock: select_for_update().get of the next item's TallaZapato row
\* (DoesNotExist: skipped).  After the last row of the last order the
\* transaction commits.
cleanup_restore(p) ==
    /\ pc[p] = "restore"
    /\ LET u == loc[p].todo[loc[p].i].talla
       IN /\ RowExists(u) => CanLock(p, u)
          /\ IF loc[p].i = Len(loc[p].todo)
             THEN cleanup_commit(p, loc[p].batch, loc[p].todo)
             ELSE /\ lockTalla' = IF RowExists(u) THEN [lockTalla EXCEPT ![u] = p] ELSE lockTalla
                  /\ loc' = [loc EXCEPT ![p].i = @ + 1]
                  /\ UNCHANGED <<stock, orders, hist, lockOrder, pc, outcome>>
    /\ UNCHANGED <<stock0, zapatos, tallas, emails, now, started, reservedSum>>

\* An unexpected exception (a database error) while restore_stock processes
\* the next item: it leaves cleanup_expired_orders, whose transaction is
\* rolled back.
cleanup_restore_fails(p) ==
    /\ pc[p] = "restore"
    /\ lockTalla' = ReleaseTalla(p)
    /\ lockOrder' = ReleaseOrder(p)
    /\ Finish(p, Res("CleanupFailed"))
    /\ UNCHANGED <<stock, stock0, zapatos, tallas, orders, emails, now, started, reservedSum, hist>>

\* The "delete" action of the stock management view: talla.delete() removes
\* the TallaZapato row u, once no transaction holds its row lock.
talla_delete(u) ==
    /\ u \in tallas
    /\ lockTalla[u] = NoProc
    /\ tallas' = tallas \ {u}
    /\ stock' = [stock EXCEPT ![u] = 0]
    /\ UNCHANGED <<stock0, zapatos, lockTalla, orders, lockOrder, emails, now, pc, loc, outcome,
                   started, reservedSum, hist>>

\* The Zapato values an administrator saves with ZapatoForm.
ZapatoValues == {ListZapato, [precio |-> 100, oferta |-> <<80>>], [precio |-> 100, oferta |-> <<0>>],
                 [precio |-> 50, oferta |-> <<>>]}

\* post of ZapatoAdminDetailView: form.save() writes precio and precioOferta
\* of the Zapato of row u.
zapato_update(u, z) ==
    /\ zapatos[u] # z
    /\ zapatos' = [zapatos EXCEPT ![u] = z]
    /\ UNCHANGED <<stock, stock0, tallas, lockTalla, orders, lockOrder, emails, now,
                   pc, loc, outcome, started, reservedSum, hist>>

\* Time passes.
Tick ==
    /\ now + TickStep <= MaxTime
    /\ now' = now + TickStep
    /\ UNCHANGED <<stock, stock0, zapatos, tallas, lockTalla, orders, lockOrder, emails,
                   pc, loc, outcome, started, reservedSum, hist>>

\* ZapatoStockEditView.post with action "remove" for row u and amount n:
\* get_object_or_404 reads the row without a lock, and "if talla.stock >=
\* amount" is tested on that copy.
stock_remove_get(p, u, n) ==
    /\ pc[p] = "idle"
    /\ started < MaxRequests
    /\ RowExists(u)
    /\ started' = started + 1
    /\ IF stock[u] >= n
       THEN /\ pc' = [pc EXCEPT ![p] = "remove_save"]
            /\ loc' = [loc EXCEPT ![p] = [IdleLoc EXCEPT !.kind = "remove",
                                            !.cart = <<[talla |-> u, cantidad |-> n]>>]]
            /\ outcome' = [outcome EXCEPT ![p] = Res("running")]
       ELSE Finish(p, Rejected("NotEnoughStock", u, 0))
    /\ UNCHANGED <<stock, stock0, zapatos, tallas, lockTalla, orders, lockOrder, emails, now,
                   reservedSum, hist>>

\* talla.stock = F("stock") - amount; talla.save(): an UPDATE that subtracts
\* the amount from the value the row has when the statement runs; it waits
\* while another transaction holds the row's lock.
stock_remove_save(p) ==
    /\ pc[p] = "remove_save"
    /\ LET l == loc[p].cart[1]
       IN /\ lockTalla[l.talla] = NoProc
          /\ stock' = [stock EXCEPT ![l.talla] = @ - l.cantidad]
    /\ Finish(p, Res("ok"))
    /\ UNCHANGED <<stock0, zapatos, tallas, lockTalla, orders, lockOrder, emails, now, started,
                   reservedSum, hist>>

\* One minute passes.
MinutePasses ==
    /\ now < MaxTime
    /\ now' = now + 1
    /\ UNCHANGED <<stock, stock0, zapatos, tallas, lockTalla, orders, lockOrder, emails,
                   pc, loc, outcome, started, reservedSum, hist>>

\* ------------------------------------------------- checkout steps and payment
\* The forms of the checkout steps and the payment methods.
Steps == {"contact", "shipping", "billing"}
Metodos == {"tarjeta", "contrarembolso"}

\* order.save() of an Order instance read earlier: an UPDATE of every column of
\* the row with the instance's primary key, and, when no row matched, an
\* INSERT of the instance (auto_now_add sets fecha_creacion anew).  The
\* OrderItems are rows of their own.
Saved(o, inst) ==
    IF orders[o].exists
    THEN [inst EXCEPT !.items = orders[o].items, !.precios = orders[o].precios]
    ELSE [inst EXCEPT !.items = ZeroItems, !.precios = ZeroPrecios, !.created = now]

\* The unpaid -> paid transitions written for order o, after a save of an
\* instance with pagado = True.
PaidWrites(o) == IF orders[o].exists /\ orders[o].pagado THEN hist[o].paidCount ELSE hist[o].paidCount + 1

\* Mutant: _get_order does not compare the owner with the caller.
Authorized_any(c, owner) == TRUE

\* The ownership test of _get_order: an authenticated caller c is turned away
\* from an order whose owner is another user.
Authorized(c, owner) == ~(c # 0 /\ owner # 0 /\ owner # c)

\* Mutant: _get_order does not filter on pagado=False.
GetOrder_anypaid(o, c) == orders[o].exists /\ Authorized(c, orders[o].usuario)

\* _get_order of the checkout views for caller c, whose session holds order
\* o: Order.objects.get(id=order_id, pagado=False), then the ownership test.
GetOrder(o, c) == orders[o].exists /\ ~orders[o].pagado /\ Authorized(c, orders[o].usuario)

\* post of CheckoutContactView, CheckoutShippingView, CheckoutBillingView by
\* caller c with a valid form f.
checkout_step_get(p, o, f, c) ==
    /\ pc[p] = "idle"
    /\ started < MaxRequests
    /\ hist[o].used
    /\ started' = started + 1
    /\ IF GetOrder(o, c)
       THEN /\ pc' = [pc EXCEPT ![p] = "step_save"]
            /\ loc' = [loc EXCEPT ![p] = [IdleLoc EXCEPT !.kind = "step", !.oid = o, !.req = <<o, c>>,
                                            !.snap = [orders[o] EXCEPT !.filled = @ \cup {f}]]]
            /\ outcome' = [outcome EXCEPT ![p] = Res("running")]
       ELSE Finish(p, Answered("OrderExpired", <<o, c>>))
    /\ UNCHANGED <<stock, stock0, zapatos, tallas, lockTalla, orders, lockOrder, emails, now,
                   reservedSum, hist>>

\* post of a checkout form view by caller c with a form that is not valid:
\* after _get_order the form is rendered again with its errors.
checkout_step_invalid(p, o, f, c) ==
    /\ pc[p] = "idle"
    /\ started < MaxRequests
    /\ hist[o].used
    /\ started' = started + 1
    /\ Finish(p, Answered(IF GetOrder(o, c) THEN "InvalidForm" ELSE "OrderExpired", <<o, c>>))
    /\ UNCHANGED <<stock, stock0, zapatos, tallas, lockTalla, orders, lockOrder, emails, now,
                   reservedSum, hist>>

\* The step's order.save(), which waits for a row lock held on the order.
checkout_step_save(p) ==
    /\ pc[p] = "step_save"
    /\ lockOrder[loc[p].oid] = NoProc
    /\ orders' = [orders EXCEPT ![loc[p].oid] = Saved(loc[p].oid, loc[p].snap)]
    /\ Finish(p, Res("ok"))
    /\ UNCHANGED <<stock, stock0, zapatos, tallas, lockTalla, lockOrder, emails, now, started,
                   reservedSum, hist>>

\* CheckoutPaymentView.post by caller c with method m: _get_order, then the
\* check of the order's age against the form window plus the payment window.
payment_post_get(p, o, m, c) ==
    /\ pc[p] = "idle"
    /\ started < MaxRequests
    /\ hist[o].used
    /\ started' = started + 1
    /\ IF ~GetOrder(o, c)
       THEN Finish(p, Answered("OrderExpired", <<o, c>>))
       ELSE IF now - orders[o].created > CHECKOUT_FORM_WINDOW_MINUTES + PAYMENT_WINDOW_MINUTES
            THEN Finish(p, Answered("PaymentWindowExpired", <<o, c>>))
            ELSE /\ pc' = [pc EXCEPT ![p] = "pay_method"]
                 /\ loc' = [loc EXCEPT ![p] = [IdleLoc EXCEPT !.kind = "pay", !.oid = o, !.req = <<o, c>>,
                                                 !.snap = [orders[o] EXCEPT !.metodo = m]]]
                 /\ outcome' = [outcome EXCEPT ![p] = Res("running")]
    /\ UNCHANGED <<stock, stock0, zapatos, tallas, lockTalla, orders, lockOrder, emails, now,
                   reservedSum, hist>>

\* order.metodo_pago = metodo_pago; order.save().  For "tarjeta" the Stripe
\* Checkout session is created with the order's id in its metadata and the
\* shopper is redirected to it.
payment_post_method(p) ==
    /\ pc[p] = "pay_method"
    /\ LET o == loc[p].oid
           row == Saved(o, loc[p].snap)
       IN /\ lockOrder[o] = NoProc
          /\ orders' = [orders EXCEPT ![o] = row]
          /\ IF row.metodo = "tarjeta"
             THEN /\ hist' = [hist EXCEPT ![o].session = TRUE]
                  /\ Finish(p, Res("redirect_stripe"))
             ELSE /\ pc' = [pc EXCEPT ![p] = "pay_done"]
                  /\ loc' = [loc EXCEPT ![p].snap = row]
                  /\ UNCHANGED <<hist, outcome>>
    /\ UNCHANGED <<stock, stock0, zapatos, tallas, lockTalla, lockOrder, emails, now, started,
                   reservedSum>>

\* order.metodo_pago = "tarjeta"; order.save(); then
\* stripe.checkout.Session.create raises (or STRIPE_SECRET_KEY is not set):
\* the error is shown on the payment page and no session exists.
payment_post_session_fails(p) ==
    /\ pc[p] = "pay_method"
    /\ loc[p].snap.metodo = "tarjeta"
    /\ lockOrder[loc[p].oid] = NoProc
    /\ orders' = [orders EXCEPT ![loc[p].oid] = Saved(loc[p].oid, loc[p].snap)]
    /\ Finish(p, Answered("GatewayError", loc[p].req))
    /\ UNCHANGED <<stock, stock0, zapatos, tallas, lockTalla, lockOrder, emails, now, started,
                   reservedSum, hist>>

\* process_payment succeeded (it always does): order.pagado = True;
\* order.save(); send_order_confirmation_email(order).
payment_post_done(p) ==
    /\ pc[p] = "pay_done"
    /\ LET o == loc[p].oid
       IN /\ lockOrder[o] = NoProc
          /\ orders' = [orders EXCEPT ![o] = Saved(o, [loc[p].snap EXCEPT !.pagado = TRUE])]
          /\ emails' = [emails EXCEPT ![o] = @ + 1]
          /\ hist' = [hist EXCEPT ![o].paidCount = PaidWrites(o)]
    /\ Finish(p, Res("ok"))
    /\ UNCHANGED <<stock, stock0, zapatos, tallas, lockTalla, lockOrder, now, started, reservedSum>>

\* Mutant: a failed send undoes the payment.
SendFailed_rollback(row) == [row EXCEPT !.pagado = FALSE]

\* The order row after send_order_confirmation_email caught the exception of
\* send_mail, logged it and returned False: the row saved before the send.
SendFailed(row) == row

\* process_payment succeeded; order.pagado = True; order.save(); the
\* confirmation e-mail cannot be sent: the view adds a warning message and
\* goes on to the success page.
payment_post_done_unsent(p) ==
    /\ pc[p] = "pay_done"
    /\ LET o == loc[p].oid
       IN /\ lockOrder[o] = NoProc
          /\ orders' = [orders EXCEPT ![o] = SendFailed(Saved(o, [loc[p].snap EXCEPT !.pagado = TRUE]))]
          /\ hist' = [hist EXCEPT ![o].paidCount = PaidWrites(o)]
    /\ Finish(p, Res("ok_warning"))
    /\ UNCHANGED <<stock, stock0, zapatos, tallas, lockTalla, lockOrder, emails, now, started, reservedSum>>

\* ------------------------------------------------------ payment confirmations
\* The handlers of a gateway confirmation: StripeWebhookView.post (push),
\* StripeReturnView.get with a paid session (pull), StripeReturnView.post.
ConfirmKinds == {"webhook", "return_get", "return_post"}

\* What each handler answers when the order does not exist.
MissingOrder(k) ==
    CASE k = "webhook" -> "ok"
      [] k = "return_get" -> "validating"
      [] OTHER -> "NotFound"

\* Mutant: the confirmation does not test order.pagado.
AlreadyPaid_never(row) == FALSE

\* "if not order.pagado": the confirmation acts only on an unpaid order.
AlreadyPaid(row) == row.pagado

\* A confirmation for order o arrives: Order.objects.get(id=...) without a
\* lock.  A paid order is answered with success at once.
confirm_get(p, o, k) ==
    /\ pc[p] = "idle"
    /\ started < MaxRequests
    /\ hist[o].session
    /\ started' = started + 1
    /\ IF ~orders[o].exists
       THEN /\ Finish(p, Res(MissingOrder(k)))
            /\ UNCHANGED hist
       ELSE IF AlreadyPaid(orders[o])
            THEN /\ Finish(p, Res("ok"))
                 /\ hist' = [hist EXCEPT ![o].confirmed = @ + 1]
            ELSE /\ pc' = [pc EXCEPT ![p] = "confirm_save"]
                 /\ loc' = [loc EXCEPT ![p] = [IdleLoc EXCEPT !.kind = k, !.oid = o, !.snap = orders[o]]]
                 /\ outcome' = [outcome EXCEPT ![p] = Res("running")]
                 /\ UNCHANGED hist
    /\ UNCHANGED <<stock, stock0, zapatos, tallas, lockTalla, orders, lockOrder, emails, now,
                   reservedSum>>

\* order.pagado = True; order.save(); send_order_confirmation_email(order).
confirm_save(p) ==
    /\ pc[p] = "confirm_save"
    /\ LET o == loc[p].oid
       IN /\ lockOrder[o] = NoProc
          /\ orders' = [orders EXCEPT ![o] = Saved(o, [loc[p].snap EXCEPT !.pagado = TRUE])]
          /\ emails' = [emails EXCEPT ![o] = @ + 1]
          /\ hist' = [hist EXCEPT ![o].paidCount = PaidWrites(o), ![o].confirmed = @ + 1]
    /\ Finish(p, Res("ok"))
    /\ UNCHANGED <<stock, stock0, zapatos, tallas, lockTalla, lockOrder, now, started, reservedSum>>

\* order.pagado = True; order.save(); the confirmation e-mail cannot be sent.
\* The confirmation handlers do not look at what
\* send_order_confirmation_email returns.
confirm_save_unsent(p) ==
    /\ pc[p] = "confirm_save"
    /\ LET o == loc[p].oid
       IN /\ lockOrder[o] = NoProc
          /\ orders' = [orders EXCEPT ![o] = SendFailed(Saved(o, [loc[p].snap EXCEPT !.pagado = TRUE]))]
          /\ hist' = [hist EXCEPT ![o].paidCount = PaidWrites(o), ![o].confirmed = @ + 1]
    /\ Finish(p, Res("ok"))
    /\ UNCHANGED <<stock, stock0, zapatos, tallas, lockTalla, lockOrder, emails, now, started, reservedSum>>

\* The events a push can carry for a Checkout session, and how its
\* Stripe-Signature header fares against STRIPE_WEBHOOK_SECRET.
PushEvents == {"checkout.session.completed", "checkout.session.expired",
               "checkout.session.async_payment_failed"}
Signatures == {"valid", "invalid", "missing", "no_secret"}

\* Mutant: the push is handled whatever its signature.
SignatureOk_any(sig) == TRUE

\* The secret is configured and stripe.Webhook.construct_event accepts the
\* payload.
SignatureOk(sig) == sig = "valid"

\* StripeWebhookView.post for an event ev whose metadata names order o: the
\* signature check, then Order.objects.get(id=...) and "if not order.pagado".
\* The event type is not looked at.
webhook_post(p, o, ev, sig) ==
    /\ pc[p] = "idle"
    /\ started < MaxRequests
    /\ hist[o].session
    /\ started' = started + 1
    /\ IF ~SignatureOk(sig)
       THEN /\ Finish(p, Answered("BadRequest", <<o, ev, sig>>))
            /\ UNCHANGED hist
       ELSE IF ~orders[o].exists
            THEN /\ Finish(p, Answered("ok", <<o, ev, sig>>))
                 /\ UNCHANGED hist
            ELSE IF AlreadyPaid(orders[o])
                 THEN /\ Finish(p, Answered("ok", <<o, ev, sig>>))
                      /\ hist' = [hist EXCEPT ![o].confirmed = @ + 1]
                 ELSE /\ pc' = [pc EXCEPT ![p] = "confirm_save"]
                      /\ loc' = [loc EXCEPT ![p] = [IdleLoc EXCEPT !.kind = "push", !.oid = o,
                                                      !.snap = orders[o], !.req = <<o, ev, sig>>]]
                      /\ outcome' = [outcome EXCEPT ![p] = Res("running")]
                      /\ UNCHANGED hist
    /\ UNCHANGED <<stock, stock0, zapatos, tallas, lockTalla, orders, lockOrder, emails, now,
                   reservedSum>>

\* The metadata.order_id of a push event: the decimal text of an order id, or
\* a text that is not a number.
MetaIds == {[numeric |-> TRUE, id |-> o] : o \in OrderIds} \cup {[numeric |-> FALSE, id |-> 0]}

\* int(order_id): <<n>> for the text of the number n; <<>> when the text is not
\* a number (int raises ValueError).
ParseInt(m) == IF m.numeric THEN <<m.id>> ELSE <<>>

\* StripeWebhookView.post for an event whose metadata.order_id is m.  After
\* the signature check, the ValueError of int(order_id) is raised inside a try
\* whose only clause is "except Order.DoesNotExist": it leaves the view and
\* the request is answered with a server error (HTTP 500).
webhook_post_metadata(p, m, ev, sig) ==
    IF ParseInt(m) = <<>>
    THEN /\ pc[p] = "idle"
         /\ started < MaxRequests
         /\ started' = started + 1
         /\ Finish(p, Answered(IF SignatureOk(sig) THEN "ServerError" ELSE "BadRequest",
                               <<m.id, ev, sig>>))
         /\ UNCHANGED <<stock, stock0, zapatos, tallas, lockTalla, orders, lockOrder, emails, now,
                        reservedSum, hist>>
    ELSE webhook_post(p, ParseInt(m)[1], ev, sig)

\* What stripe.checkout.Session.retrieve gives StripeReturnView.get: the
\* session's payment_status, or an exception.
GatewayAnswers == {"paid", "unpaid", "error"}

\* Mutant: any answer of the gateway counts as paid.
GatewayPaid_any(g) == TRUE

\* payment_status == "paid".
GatewayPaid(g) == g = "paid"

\* StripeReturnView.get for the session's order o with gateway answer g.  On
\* "paid" an unpaid order goes on to be saved as paid.  Otherwise nothing is
\* written: a paid order is redirected to its success page, else the
\* validating page is rendered.
stripe_return_get(p, o, g) ==
    /\ pc[p] = "idle"
    /\ started < MaxRequests
    /\ hist[o].session
    /\ started' = started + 1
    /\ IF GatewayPaid(g) /\ orders[o].exists /\ ~AlreadyPaid(orders[o])
       THEN /\ pc' = [pc EXCEPT ![p] = "confirm_save"]
            /\ loc' = [loc EXCEPT ![p] = [IdleLoc EXCEPT !.kind = "return_get", !.oid = o,
                                            !.snap = orders[o], !.req = <<o, g>>]]
            /\ outcome' = [outcome EXCEPT ![p] = Res("running")]
            /\ UNCHANGED hist
       ELSE /\ Finish(p, Answered(IF orders[o].exists /\ orders[o].pagado THEN "ok" ELSE "validating",
                                   <<o, g>>))
            /\ hist' = [hist EXCEPT ![o].confirmed =
                            IF GatewayPaid(g) /\ orders[o].exists THEN @ + 1 ELSE @]
    /\ UNCHANGED <<stock, stock0, zapatos, tallas, lockTalla, orders, lockOrder, emails, now,
                   reservedSum>>

\* The order StripeReturnView.get acts on: the order of the browser session's
\* checkout_order_id (s, 0 when absent) if it exists, else the order with the
\* codigo of the query string (q, 0 when absent) if it exists, else, when the
\* gateway answered, the order of the session's metadata (m) if it exists;
\* 0 when none is found.
ReturnOrder(s, q, m, g) ==
    IF s # 0 /\ orders[s].exists THEN s
    ELSE IF q # 0 /\ orders[q].exists THEN q
    ELSE IF g # "error" /\ orders[m].exists THEN m
    ELSE 0

\* StripeReturnView.get with browser session order s, query string codigo of
\* order q and the session_id of the gateway session created for order m,
\* for which the gateway answers g.
stripe_return_get_session(p, s, q, m, g) ==
    /\ pc[p] = "idle"
    /\ started < MaxRequests
    /\ hist[m].session
    /\ started' = started + 1
    /\ LET o == ReturnOrder(s, q, m, g)
       IN IF o # 0 /\ GatewayPaid(g) /\ ~AlreadyPaid(orders[o])
          THEN /\ pc' = [pc EXCEPT ![p] = "confirm_save"]
               /\ loc' = [loc EXCEPT ![p] = [IdleLoc EXCEPT !.kind = "return_session", !.oid = o,
                                               !.snap = orders[o], !.req = <<s, q, m, g>>]]
               /\ outcome' = [outcome EXCEPT ![p] = Res("running")]
               /\ UNCHANGED hist
          ELSE /\ Finish(p, Answered(IF o # 0 /\ orders[o].pagado THEN "ok" ELSE "validating",
                                      <<s, q, m, g>>))
               /\ hist' = [h \in OrderIds |->
                             IF h = o /\ GatewayPaid(g) THEN [hist[h] EXCEPT !.confirmed = @ + 1]
                             ELSE hist[h]]
    /\ UNCHANGED <<stock, stock0, zapatos, tallas, lockTalla, orders, lockOrder, emails, now,
                   reservedSum>>

\* Mutant: the reservation time is the form window alone.
ReservationMinutes_formonly(fw, pw) == fw

\* EnvConfig.get_order_reservation_minutes for a configuration with form
\* window fw and payment window pw.
ReservationMinutes(fw, pw) == fw + pw + 5

\* The filter of cleanup_expired_orders at time t under that configuration:
\* pagado=False, fecha_creacion < t - reservation minutes.
SelectedAt(row, t, fw, pw) ==
    row.exists /\ ~row.pagado /\ row.created < t - ReservationMinutes(fw, pw)

\* The age test of CheckoutPaymentView.post at time t under that
\* configuration: the payment is turned away when the age exceeds the form
\* window plus the payment window.
PaymentWindowOpen(row, t, fw, pw) == ~(t - row.created > fw + pw)

\* The cleanup's filter and the payment view's age test are applied to an
\* unpaid order created at time cr, at time t, with windows fw and pw.
window_check(p, fw, pw, cr, t) ==
    /\ pc[p] = "idle"
    /\ started < MaxRequests
    /\ started' = started + 1
    /\ LET row == [NewOrder EXCEPT !.created = cr]
       IN Finish(p, Answered("windows", <<fw, pw, cr, t, SelectedAt(row, t, fw, pw),
                                          PaymentWindowOpen(row, t, fw, pw)>>))
    /\ UNCHANGED <<stock, stock0, zapatos, tallas, lockTalla, orders, lockOrder, emails, now,
                   reservedSum, hist>>

\* ------------------------------------------------------------------- states
\* The rows, locks, workers and clock at the start; the catalogue prices are
\* set by the specification.
InitBase ==
    /\ \E q \in 1..MaxStock : stock0 = [u \in AllUnits |-> IF u \in Tallas THEN q ELSE 0]
    /\ tallas = Tallas
    /\ lockTalla = [u \in AllUnits |-> NoProc]
    /\ lockOrder = [o \in OrderIds |-> NoProc]
    /\ emails = [o \in OrderIds |-> 0]
    /\ now = 0
    /\ pc = [p \in Procs |-> "idle"]
    /\ loc = [p \in Procs |-> IdleLoc]
    /\ outcome = [p \in Procs |-> Res("none")]
    /\ started = 0
    /\ reservedSum = [u \in AllUnits |-> 0]

\* Every Zapato at its list price.
InitDb ==
    /\ InitBase
    /\ zapatos = [u \in AllUnits |-> ListZapato]

\* No order yet.
InitReserve ==
    /\ InitDb
    /\ stock = stock0
    /\ orders = [o \in OrderIds |-> NoOrder]
    /\ hist = [o \in OrderIds |-> NoHist]

\* Concurrent reserve_stock calls with any cart.
NextReserve ==
    \E p \in Procs :
        \/ \E c \in Carts : reserve_stock_begin(p, c)
        \/ reserve_stock_check(p)
        \/ reserve_stock_deduct(p)

SpecReserve == InitReserve /\ [][NextReserve]_vars

\* The carts an order is created from: at most one pair of each size per line.
OrderCarts == {c \in Carts : \A k \in 1..Len(c) : c[k].cantidad <= 1}

\* Order creation by the views and by create_order_from_items, cleanups and
\* the clock.
Next ==
    \/ \E p \in Procs :
        \/ \E c \in OrderCarts, k \in CreateKinds : create_order_begin(p, c, k)
        \/ reserve_stock_check(p)
        \/ order_insert(p)
        \/ order_insert_collision(p)
        \/ order_item_insert_view(p)
        \/ order_item_insert_util(p)
        \/ cleanup_select(p)
        \/ cleanup_restore(p)
    \/ Tick

Spec == InitReserve /\ [][Next]_vars

\* A cart that names each row in at most one line, every line with a valid
\* quantity for an existing row.
PlainCart(c) ==
    /\ CantidadValida(c)
    /\ \A k \in 1..Len(c) : c[k].talla \in Tallas
    /\ \A j, k \in 1..Len(c) : j # k => c[j].talla # c[k].talla

NextPlain ==
    \E p \in Procs :
        \/ \E c \in {d \in Carts : PlainCart(d)} : reserve_stock_begin(p, c)
        \/ reserve_stock_check(p)
        \/ reserve_stock_deduct(p)

SpecPlain == InitReserve /\ [][NextPlain]_vars

C2_StockNonNegative == \A u \in AllUnits : stock[u] >= 0

\* Every line of cart c passes reserve_stock's validation against stock s.
LinesValid(c, s) ==
    \A k \in 1..Len(c) :
        /\ c[k].talla \in tallas
        /\ c[k].cantidad > 0 /\ c[k].cantidad <= MaxCantidad
        /\ c[k].cantidad <= s[c[k].talla]

\* C3: a reserve call changes a stock, or succeeds, only in the step that
\* commits a cart all of whose lines pass validation: a cart with a line that
\* fails validation makes the call fail with every stock unchanged.
C3_AllOrNothing ==
    [][(stock' # stock \/ \E p \in Procs : outcome'[p].result = "ok" /\ pc[p] # "idle")
        => \E p \in Procs :
              /\ pc[p] = "deduct" /\ pc'[p] = "idle"
              /\ outcome'[p].result = "ok"
              /\ LinesValid(loc[p].cart, stock)]_vars

\* A two-line cart was rejected at its second line, after its first line had
\* passed the check, and no stock has changed.
C3_Witness ==
    /\ started = 1
    /\ \E p \in Procs : outcome[p].line = 2 /\ outcome[p].result \in {"InsufficientStock", "UnknownSize"}
    /\ stock = stock0

\* An order waiting for its card payment: every form filled, one pair of
\* size u reserved, a Stripe Checkout session open.
PendingOrder(u) ==
    [exists |-> TRUE, pagado |-> FALSE, created |-> 0, filled |-> Steps,
     metodo |-> "tarjeta", usuario |-> 0, items |-> [ZeroItems EXCEPT ![u] = 1],
     precios |-> [ZeroPrecios EXCEPT ![u] = ItemPrecios(ListZapato, 1)]]

\* Every order id has an order waiting for its card payment.
InitPay ==
    /\ InitDb
    /\ orders = [o \in OrderIds |-> PendingOrder(o)]
    /\ stock = [u \in AllUnits |-> IF u \in OrderIds THEN stock0[u] - 1 ELSE stock0[u]]
    /\ hist = [o \in OrderIds |-> [NoHist EXCEPT !.used = TRUE, !.session = TRUE]]

\* Confirmations handled one after the other by one worker.
NextSeq ==
    \/ \E o \in OrderIds, k \in ConfirmKinds : confirm_get(1, o, k)
    \/ confirm_save(1)
    \/ Tick

SpecSeq == InitPay /\ [][NextSeq]_vars

\* Confirmations handled concurrently.
NextConfirm ==
    \/ \E p \in Procs :
        \/ \E o \in OrderIds, k \in ConfirmKinds : confirm_get(p, o, k)
        \/ confirm_save(p)
    \/ Tick

SpecConfirm == InitPay /\ [][NextConfirm]_vars

\* Checkout steps, payment submissions, confirmations and cleanups on the
\* waiting orders.
NextPay ==
    \/ \E p \in Procs :
        \/ \E o \in OrderIds, f \in Steps, c \in Users : checkout_step_get(p, o, f, c)
        \/ checkout_step_save(p)
        \/ \E o \in OrderIds, m \in Metodos, c \in Users : payment_post_get(p, o, m, c)
        \/ payment_post_method(p)
        \/ payment_post_done(p)
        \/ \E o \in OrderIds, k \in ConfirmKinds : confirm_get(p, o, k)
        \/ confirm_save(p)
        \/ cleanup_select(p)
        \/ cleanup_restore(p)
    \/ Tick

SpecPay == InitPay /\ [][NextPay]_vars

\* -------------------------------------------------------- claims C4 to C7
\* C4: when confirmations for an existing order are handled one after the
\* other, exactly one of them writes the unpaid -> paid transition and one
\* notification is sent; after the first, the order row stays the paid row
\* and the notification count stays 1, and every confirmation answers success.
C4_ExactlyOnce ==
    /\ \A o \in OrderIds :
        /\ emails[o] = hist[o].paidCount
        /\ emails[o] <= 1
        /\ hist[o].confirmed >= 1
             => orders[o] = [PendingOrder(o) EXCEPT !.pagado = TRUE] /\ emails[o] = 1
    /\ outcome[1].result \in {"none", "running", "ok"}

C4_Witness ==
    /\ hist[1].confirmed = MaxRequests
    /\ orders[1].pagado
    /\ emails[1] = 1

\* C5: when confirmations for the same unpaid order are handled
\* concurrently, at most one applies the transition and sends the
\* notification: no order gets more than one notification.
C5_OneNotification == \A o \in OrderIds : emails[o] <= 1

\* C6: a paid order is never deleted, and once a cleanup has deleted an order
\* no confirmation makes it a paid order or sends its notification.
C6_SweepOrConfirm ==
    [][\A o \in OrderIds :
          /\ orders[o].exists /\ orders[o].pagado => orders'[o].exists
          /\ hist[o].swept => emails'[o] = emails[o] /\ ~(orders'[o].exists /\ orders'[o].pagado)]_vars

\* C7: a paid order never becomes unpaid.
C7_PaidStaysPaid ==
    [][\A o \in OrderIds :
          orders[o].exists /\ orders[o].pagado /\ orders'[o].exists => orders'[o].pagado]_vars

\* C10: an order goes from unpaid to paid only while its age is at most the
\* form window plus the payment window.
C10_PaidWithinWindow ==
    [][\A o \in OrderIds :
          orders[o].exists /\ ~orders[o].pagado /\ orders'[o].exists /\ orders'[o].pagado
          => now - orders[o].created <= CHECKOUT_FORM_WINDOW_MINUTES + PAYMENT_WINDOW_MINUTES]_vars

\* ------------------------------------------------------------ claims C8, C9
\* Total quantity of the OrderItems of the existing orders for row u.
RECURSIVE ItemsOf(_, _)
ItemsOf(os, u) ==
    IF os = {} THEN 0
    ELSE LET o == CHOOSE x \in os : TRUE
         IN (IF orders[o].exists THEN orders[o].items[u] ELSE 0) + ItemsOf(os \ {o}, u)

ItemsTotal(u) == ItemsOf(OrderIds, u)

\* C8: whenever no request is in progress (and no stock has been oversold),
\* for every TallaZapato row the stock plus the quantities of the OrderItems
\* of all existing orders for that row equals the row's initial stock: no
\* reservation is leaked or counted twice.
C8_StockPlusItems ==
    ((\A p \in Procs : pc[p] = "idle") /\ (\A u \in AllUnits : stock[u] >= 0))
        => \A u \in Tallas : stock[u] + ItemsTotal(u) = stock0[u]

\* C9: when an order creation ends because the Order insert or an OrderItem
\* insert failed, no Order row of that creation remains, and (when it was the
\* only request so far) every stock value is back at its value from before
\* the call.
C9_CreationAtomic ==
    [][\A p \in Procs :
          (/\ loc[p].kind \in CreateKinds
           /\ pc'[p] = "idle"
           /\ outcome'[p].result \in {"CodeGenerationExhausted", "ItemInsertFailed"})
          => /\ loc[p].oid # 0 => ~orders'[loc[p].oid].exists
             /\ started = 1 => stock' = stock0]_vars

\* ------------------------------------------------------ claims C11, C12
\* C11: a checkout step (contact, shipping, billing, payment method) goes on
\* to store its data only on an order created at most the form window ago.
C11_StepsWithinFormWindow ==
    [][\A p \in Procs :
          pc[p] = "idle" /\ pc'[p] \in {"step_save", "pay_method"}
          => now - loc'[p].snap.created <= CHECKOUT_FORM_WINDOW_MINUTES]_vars

\* An order in the checkout forms: no form filled yet, owner w.
FormOrder(u, w) == [PendingOrder(u) EXCEPT !.filled = {}, !.usuario = w]

\* Every order id has an order in the checkout forms: order 1 of any owner,
\* the other ones ownerless.
InitOwner ==
    /\ InitDb
    /\ \E w \in Users : orders = [o \in OrderIds |-> FormOrder(o, IF o = 1 THEN w ELSE 0)]
    /\ stock = [u \in AllUnits |-> IF u \in OrderIds THEN stock0[u] - 1 ELSE stock0[u]]
    /\ hist = [o \in OrderIds |-> [NoHist EXCEPT !.used = TRUE]]

\* Checkout steps and payment submissions by any caller on any order.
NextOwner ==
    \E p \in Procs :
        \/ \E o \in OrderIds, f \in Steps, c \in Users : checkout_step_get(p, o, f, c)
        \/ checkout_step_save(p)
        \/ \E o \in OrderIds, m \in Metodos, c \in Users : payment_post_get(p, o, m, c)
        \/ payment_post_method(p)
        \/ payment_post_done(p)

SpecOwner == InitOwner /\ [][NextOwner]_vars

\* C12: a step that goes on to save was invoked by the anonymous caller, on
\* an ownerless order, or by the order's owner (an authenticated caller never
\* gets to change another user's order); and a step is refused only when the
\* order is missing, paid, or owned by a user other than the authenticated
\* caller, so an ownerless unpaid order is accepted for every caller.
C12_OwnershipCheck ==
    [][\A p \in Procs :
          /\ pc'[p] \in {"step_save", "pay_method", "pay_done"}
               => LET c == loc'[p].req[2]
                      owner == loc'[p].snap.usuario
                  IN c = 0 \/ owner = 0 \/ owner = c
          /\ outcome'[p] # outcome[p] /\ outcome'[p].result = "OrderExpired"
               => LET o == outcome'[p].req[1]
                      c == outcome'[p].req[2]
                  IN /\ orders' = orders
                     /\ \/ ~orders[o].exists
                        \/ orders[o].pagado
                        \/ c # 0 /\ orders[o].usuario \notin {0, c}]_vars

\* User 2 was turned away from user 1's order, which is unchanged, and has a
\* step in progress on an ownerless order.
C12_Witness ==
    /\ orders[1] = FormOrder(1, 1)
    /\ orders[2].usuario = 0
    /\ \E p, q \in Procs :
          /\ outcome[p] = Answered("OrderExpired", <<1, 2>>)
          /\ pc[q] = "step_save" /\ loc[q].req = <<2, 2>>

\* ------------------------------------------------------ claims C13, C14
\* An unpaid order older than the reservation window.
OlderThanReservation(row) ==
    /\ row.exists /\ ~row.pagado
    /\ now - row.created > CHECKOUT_FORM_WINDOW_MINUTES + PAYMENT_WINDOW_MINUTES + 5

\* Total cantidad of the items for row u of the orders of os that the step
\* deletes.
RECURSIVE DeletedQty(_, _)
DeletedQty(os, u) ==
    IF os = {} THEN 0
    ELSE LET o == CHOOSE x \in os : TRUE
         IN (IF orders[o].exists /\ ~orders'[o].exists THEN orders[o].items[u] ELSE 0)
            + DeletedQty(os \ {o}, u)

NextSweep ==
    \/ \E p \in Procs :
        \/ cleanup_select(p)
        \/ cleanup_restore(p)
    \/ Tick

SpecSweep == InitPay /\ [][NextSweep]_vars

\* C14: under concurrent cleanup runs an order is in the batch of at most one
\* run, and every stock plus the items of the existing orders is the initial
\* stock: the items of a deleted order were added back once.
C14_RestoredOnce ==
    /\ \A o \in OrderIds : Cardinality({p \in Procs : o \in loc[p].batch}) <= 1
    /\ \A u \in Tallas : stock[u] + ItemsTotal(u) = stock0[u]

\* A cleanup run holds the expired order 1 in its batch, and the run the other
\* worker would start now has to wait for it.
C14_Witness ==
    \E p, q \in Procs :
        /\ p # q
        /\ pc[p] = "restore" /\ 1 \in loc[p].batch
        /\ pc[q] = "idle" /\ started < MaxRequests
        /\ ~ENABLED cleanup_select(q)

\* ---------------------------------------------------------------- claim C15
\* The scheduler thread (worker 1) runs the cleanup again and again while
\* time passes and worker 2 handles the confirmations that arrive; no shopper
\* request is made.
NextLive ==
    \/ cleanup_scheduled(1)
    \/ cleanup_restore(1)
    \/ \E o \in OrderIds, k \in ConfirmKinds : confirm_get(2, o, k)
    \/ confirm_save(2)
    \/ Tick

\* The interval job keeps running, each run goes on to its end, time passes.
SpecLive ==
    /\ InitPay
    /\ [][NextLive]_vars
    /\ WF_vars(cleanup_scheduled(1))
    /\ WF_vars(cleanup_restore(1))
    /\ WF_vars(Tick)

\* C15: an unpaid order does not stay: unless it gets paid, it is eventually
\* deleted with the pair it holds back in stock, without any request of the
\* shopper.
C15_EventuallySwept ==
    \A o \in OrderIds :
        (orders[o].exists /\ ~orders[o].pagado)
            ~> ((~orders[o].exists /\ stock[o] = stock0[o]) \/ (orders[o].exists /\ orders[o].pagado))

\* The scheduled cleanup has deleted the unpaid order 1, older than the
\* reservation window, and its pair is back.
C15_Witness ==
    /\ hist[1].swept /\ ~orders[1].exists /\ stock[1] = stock0[1]
    /\ hist[1].paidCount = 0
    /\ now > CHECKOUT_FORM_WINDOW_MINUTES + PAYMENT_WINDOW_MINUTES + 5

\* ---------------------------------------------------------------- claim C16
\* Cleanup runs in which processing an order can fail.
NextSweepFault ==
    \/ \E p \in Procs :
        \/ cleanup_select(p)
        \/ cleanup_restore(p)
        \/ cleanup_restore_fails(p)
    \/ Tick

SpecSweepFault == InitPay /\ [][NextSweepFault]_vars

\* C16: when a cleanup run ends because processing one order failed, the other
\* orders of its batch have been deleted (all but at most one are gone).
C16_FailureIsolated ==
    [][\A p \in Procs :
          pc[p] = "restore" /\ pc'[p] = "idle" /\ outcome'[p].result = "CleanupFailed"
          => Cardinality({o \in loc[p].batch : orders'[o].exists}) <= 1]_vars

\* ------------------------------------------------------ claims C17, C18
\* Pushes of any event and signature for the waiting orders.
NextPush ==
    \/ \E p \in Procs :
        \/ \E o \in OrderIds, ev \in PushEvents, sig \in Signatures : webhook_post(p, o, ev, sig)
        \/ confirm_save(p)
    \/ Tick

SpecPush == InitPay /\ [][NextPush]_vars

\* C17: the save of a push whose event is not the completion of a paid
\* session changes no order and sends no notification.
C17_FailedPushNoChange ==
    [][\A p \in Procs :
          /\ pc[p] = "confirm_save" /\ pc'[p] = "idle"
          /\ loc[p].kind = "push" /\ loc[p].req[2] # "checkout.session.completed"
          => orders' = orders /\ emails' = emails]_vars

\* C18: only a push with a valid signature goes on to the order; a push
\* answered at once (rejected, or for a paid or missing order) changes no
\* order and sends nothing, and it is rejected with 400 exactly when the
\* signature is invalid or missing or no secret is configured.
C18_SignatureFirst ==
    [][\A p \in Procs :
          /\ pc'[p] = "confirm_save" => loc'[p].req[3] = "valid"
          /\ outcome'[p] # outcome[p] /\ pc'[p] = "idle" /\ pc[p] = "idle"
               => /\ orders' = orders /\ emails' = emails
                  /\ outcome'[p].result = "BadRequest" <=> outcome'[p].req[3] # "valid"]_vars

\* A push for order 1 with an invalid signature was rejected; order 1 is
\* still the unpaid order and no notification was sent.
C18_Witness ==
    /\ \E p \in Procs, ev \in PushEvents : outcome[p] = Answered("BadRequest", <<1, ev, "invalid">>)
    /\ orders[1] = PendingOrder(1)
    /\ emails[1] = 0

\* ---------------------------------------------------------------- claim C19
\* C19: no confirmation is answered with an error because its order is
\* missing.
C19_MissingOrderIsSuccess == \A p \in Procs : outcome[p].result # "NotFound"

\* ---------------------------------------------------------------- claim C20
\* Returns from the gateway with any answer, and pushes that confirm.
NextPull ==
    \/ \E p \in Procs :
        \/ \E o \in OrderIds, g \in GatewayAnswers : stripe_return_get(p, o, g)
        \/ \E o \in OrderIds : confirm_get(p, o, "webhook")
        \/ confirm_save(p)
    \/ Tick

SpecPull == InitPay /\ [][NextPull]_vars

\* C20: a return goes on to mark the order paid only when the gateway
\* answered "paid"; a return for which the gateway answered "unpaid" or failed
\* changes no order, sends no notification and renders the validating page
\* (the success page when the order is already paid).
C20_PullNotPaid ==
    [][\A p \in Procs :
          /\ pc'[p] = "confirm_save" /\ loc'[p].kind = "return_get" => loc'[p].req[2] = "paid"
          /\ outcome'[p] # outcome[p] /\ outcome'[p].req # <<>> /\ outcome'[p].req[2] # "paid"
               => /\ orders' = orders /\ emails' = emails
                  /\ outcome'[p].result =
                        IF orders[outcome'[p].req[1]].exists /\ orders[outcome'[p].req[1]].pagado
                        THEN "ok" ELSE "validating"]_vars

\* The gateway query failed on the return for the unpaid order 1: the
\* validating page was rendered, order 1 is unchanged, nothing was sent.
C20_Witness ==
    /\ \E p \in Procs : outcome[p] = Answered("validating", <<1, "error">>)
    /\ orders[1] = PendingOrder(1)
    /\ emails[1] = 0

\* ---------------------------------------------------------------- claim C21
\* C21: an order goes from unpaid to paid only when its contact, shipping
\* and billing forms have all been stored: no payment is accepted for an
\* order whose preceding steps have not been completed.
C21_PaidAfterForms ==
    [][\A o \in OrderIds :
          orders[o].exists /\ ~orders[o].pagado /\ orders'[o].exists /\ orders'[o].pagado
          => orders[o].filled = Steps]_vars

\* ---------------------------------------------------------------- claim C22
\* Concurrent order creations, without cleanups.
NextCreate ==
    \E p \in Procs :
        \/ \E c \in OrderCarts, k \in CreateKinds : create_order_begin(p, c, k)
        \/ reserve_stock_check(p)
        \/ order_insert(p)
        \/ order_insert_collision(p)
        \/ order_item_insert_view(p)
        \/ order_item_insert_util(p)

SpecCreate == InitReserve /\ [][NextCreate]_vars

\* C22: a creation never starts a sixth attempt; an attempt that ends in a
\* code collision leaves every stock and every order as they were; and the
\* creation fails with CodeGenerationExhausted exactly at the collision of its
\* fifth attempt, where it stops holding no row lock and having stored no order.
C22_BoundedRetries ==
    [][\A p \in Procs :
          /\ loc'[p].attempt <= max_retries - 1
          /\ loc'[p].attempt > loc[p].attempt => stock' = stock /\ orders' = orders
          /\ pc[p] # "idle" /\ outcome'[p].result = "CodeGenerationExhausted"
               => /\ loc[p].attempt = max_retries - 1
                  /\ pc'[p] = "idle"
                  /\ stock' = stock /\ orders' = orders
                  /\ \A u \in AllUnits : lockTalla'[u] # p]_vars

\* The first creation stored order 1 with one pair of size 1; the second
\* creation gave up after five code collisions: no second order exists and
\* the stock is the initial one less the first order's pair.
C22_Witness ==
    /\ started = 2
    /\ \E p \in Procs : outcome[p] = Res("CodeGenerationExhausted")
    /\ orders[1].exists /\ orders[1].items = [ZeroItems EXCEPT ![1] = 1]
    /\ ~orders[2].exists /\ ~hist[2].used
    /\ stock = [stock0 EXCEPT ![1] = @ - 1]

\* ---------------------------------------------------------------- claim C23
\* One worker creates orders from carts that name each row once, and runs
\* cleanups.
NextRestore ==
    \/ \E c \in {d \in Carts : PlainCart(d)}, k \in CreateKinds : create_order_begin(1, c, k)
    \/ reserve_stock_check(1)
    \/ order_insert(1)
    \/ order_insert_collision(1)
    \/ order_item_insert_view(1)
    \/ order_item_insert_util(1)
    \/ cleanup_select(1)
    \/ cleanup_restore(1)
    \/ Tick

SpecRestore == InitReserve /\ [][NextRestore]_vars

\* C23: when a cleanup restores and deletes orders whose items were reserved,
\* every row is left with its initial stock less what the orders that remain
\* hold: the rows of the restored orders are back at their value from before
\* the reservation.
C23_RestoreRoundTrip ==
    [][(\E o \in OrderIds : ~hist[o].swept /\ hist'[o].swept)
        => \A u \in Tallas :
              stock'[u] = stock0[u] - (ItemsTotal(u) - DeletedQty(OrderIds, u))]_vars

\* An order of two pairs of size 1 took the whole stock of that row; the
\* cleanup that followed deleted it and the row has its two pairs again.
C23_Witness ==
    /\ started = 2
    /\ reservedSum[1] = 2 /\ stock0[1] = 2
    /\ hist[1].swept /\ ~orders[1].exists
    /\ stock = stock0

\* ---------------------------------------------------------------- claim C24
\* An unpaid order with a items of size 1 and b items of size 2.
BasketOrder(a, b) ==
    [PendingOrder(1) EXCEPT !.items = [ZeroItems EXCEPT ![1] = a, ![2] = b],
                            !.precios = [ZeroPrecios EXCEPT ![1] = ItemPrecios(ListZapato, a),
                                                            ![2] = ItemPrecios(ListZapato, b)]]

\* Order 1 holds pairs of both sizes; there is no other order.
InitBasket ==
    /\ InitDb
    /\ \E a \in 1..stock0[1], b \in 1..stock0[2] :
          /\ orders = [o \in OrderIds |-> IF o = 1 THEN BasketOrder(a, b) ELSE NoOrder]
          /\ stock = [stock0 EXCEPT ![1] = @ - a, ![2] = @ - b]
    /\ hist = [o \in OrderIds |-> IF o = 1 THEN [NoHist EXCEPT !.used = TRUE] ELSE NoHist]

\* Sizes are deleted while cleanups run.
NextSizeDeleted ==
    \/ \E u \in Tallas : talla_delete(u)
    \/ \E p \in Procs :
        \/ cleanup_select(p)
        \/ cleanup_restore(p)
    \/ Tick

SpecSizeDeleted == InitBasket /\ [][NextSizeDeleted]_vars

\* C24: a cleanup that deletes orders ends with success, creates no
\* TallaZapato row, leaves a row that no longer exists alone, and adds to every
\* existing row the quantities the deleted orders held of it.
C24_DeletedSizeSkipped ==
    [][(\E o \in OrderIds : ~hist[o].swept /\ hist'[o].swept)
        => /\ tallas' = tallas
           /\ \E p \in Procs : pc'[p] = "idle" /\ outcome'[p].result = "ok" /\ outcome'[p] # outcome[p]
           /\ \A u \in Tallas :
                 stock'[u] = IF u \in tallas THEN stock[u] + DeletedQty(OrderIds, u) ELSE stock[u]]_vars

\* Size 1 was deleted; the cleanup then deleted order 1, which held pairs of
\* both sizes: size 2 has its initial stock again, size 1 is still gone.
C24_Witness ==
    /\ tallas = {2}
    /\ hist[1].swept /\ ~orders[1].exists
    /\ stock[2] = stock0[2]
    /\ \E p \in Procs : outcome[p].result = "ok" /\ outcome[p].req[1] = 1

\* ---------------------------------------------------------------- claim C25
\* Guests send valid and invalid forms and payment submissions, whose Stripe
\* session may fail to be created; cleanups run and time passes.
NextRetry ==
    \/ \E p \in Procs :
        \/ \E o \in OrderIds, f \in Steps : checkout_step_get(p, o, f, 0)
        \/ \E o \in OrderIds, f \in Steps : checkout_step_invalid(p, o, f, 0)
        \/ checkout_step_save(p)
        \/ \E o \in OrderIds, m \in Metodos : payment_post_get(p, o, m, 0)
        \/ payment_post_method(p)
        \/ payment_post_session_fails(p)
        \/ payment_post_done(p)
        \/ cleanup_select(p)
        \/ cleanup_restore(p)
    \/ Tick

SpecRetry == InitOwner /\ [][NextRetry]_vars

\* C25: a step that fails on an invalid form or on the creation of the Stripe
\* session, on an order that exists and is within the form and payment
\* windows, leaves the order existing and unpaid with its creation time, its
\* items and every stock unchanged, so that the same step is accepted again.
C25_FailureIsLocal ==
    [][\A p \in Procs :
          /\ outcome'[p].result \in {"InvalidForm", "GatewayError"}
          /\ pc'[p] = "idle"
          /\ \/ pc[p] # "idle"
             \/ outcome[p].result # outcome'[p].result
             \/ outcome[p].req # outcome'[p].req
          => LET o == outcome'[p].req[1]
                 c == outcome'[p].req[2]
             IN orders[o].exists
                /\ now - orders[o].created <= CHECKOUT_FORM_WINDOW_MINUTES + PAYMENT_WINDOW_MINUTES
                => /\ orders'[o].exists /\ ~orders'[o].pagado
                   /\ orders'[o].created = orders[o].created
                   /\ orders'[o].items = orders[o].items
                   /\ stock' = stock
                   /\ Authorized(c, orders'[o].usuario)]_vars

\* The Stripe session for order 1 could not be created, and no session was
\* created for it before: the order is unpaid, holds its pair and is within
\* the windows, so the payment can be submitted again.
C25_Witness ==
    /\ \E p \in Procs : outcome[p] = Answered("GatewayError", <<1, 0>>)
    /\ \A p \in Procs : pc[p] = "idle"
    /\ ~hist[1].session
    /\ GetOrder(1, 0) /\ orders[1].items[1] = 1 /\ stock[1] = stock0[1] - 1
    /\ now - orders[1].created <= CHECKOUT_FORM_WINDOW_MINUTES + PAYMENT_WINDOW_MINUTES
    /\ started < MaxRequests

\* ---------------------------------------------------------------- claim C26
\* Payments and confirmations whose e-mail may fail to be sent.
NextUnsent ==
    \E p \in Procs :
        \/ \E o \in OrderIds, m \in Metodos : payment_post_get(p, o, m, 0)
        \/ payment_post_method(p)
        \/ payment_post_done(p)
        \/ payment_post_done_unsent(p)
        \/ \E o \in OrderIds, k \in ConfirmKinds : confirm_get(p, o, k)
        \/ confirm_save(p)
        \/ confirm_save_unsent(p)

SpecUnsent == InitPay /\ [][NextUnsent]_vars

\* C26: when a handler has saved the order as paid and no notification was
\* sent, the order is there and paid, and the handler ends with success (the
\* payment view with a warning).
C26_UnsentStaysPaid ==
    [][\A p \in Procs :
          pc[p] \in {"pay_done", "confirm_save"} /\ pc'[p] = "idle" /\ emails' = emails
          => /\ orders'[loc[p].oid].exists /\ orders'[loc[p].oid].pagado
             /\ outcome'[p] = Res(IF pc[p] = "pay_done" THEN "ok_warning" ELSE "ok")]_vars

\* Order 1 was paid on delivery, its e-mail could not be sent: the order is
\* paid, no notification was sent for it, the shopper got the warning.
C26_Witness ==
    /\ \E p \in Procs : outcome[p] = Res("ok_warning")
    /\ started = 1
    /\ orders[1] = [PendingOrder(1) EXCEPT !.pagado = TRUE, !.metodo = "contrarembolso"]
    /\ emails[1] = 0 /\ hist[1].paidCount = 1

ItemStored_live(o, u) == <<orders[o].items[u], ItemPrecios(zapatos[u], orders[o].items[u])>>

\* What the OrderItem of order o for row u holds: cantidad, and the stored
\* columns precio_unitario, total and descuento.
ItemStored(o, u) == <<orders[o].items[u], orders[o].precios[u]>>

\* No order yet; size 1 is on offer.
InitSnapshot ==
    /\ InitBase
    /\ zapatos = [u \in AllUnits |-> IF u = 1 THEN [precio |-> 100, oferta |-> <<80>>] ELSE ListZapato]
    /\ stock = stock0
    /\ orders = [o \in OrderIds |-> NoOrder]
    /\ hist = [o \in OrderIds |-> NoHist]

\* One worker creates orders, stores contact forms and runs cleanups, while
\* the administrator changes the price and the offer of size 1.
NextSnapshot ==
    \/ \E c \in {d \in Carts : PlainCart(d)}, k \in CreateKinds : create_order_begin(1, c, k)
    \/ reserve_stock_check(1)
    \/ order_insert(1)
    \/ order_insert_collision(1)
    \/ order_item_insert_view(1)
    \/ order_item_insert_util(1)
    \/ \E o \in OrderIds : checkout_step_get(1, o, "contact", 0)
    \/ checkout_step_save(1)
    \/ cleanup_select(1)
    \/ cleanup_restore(1)
    \/ \E z \in ZapatoValues : zapato_update(1, z)
    \/ Tick

SpecSnapshot == InitSnapshot /\ [][NextSnapshot]_vars

\* C28: an OrderItem of an order that is still there after a step is there
\* too, with the cantidad, precio_unitario, total and descuento it had: no
\* step changes an item, and an item disappears only with its order.
C28_ItemsImmutable ==
    [][\A o \in OrderIds, u \in Tallas :
          orders[o].exists /\ orders[o].items[u] > 0 /\ orders'[o].exists
          => ItemStored(o, u)' = ItemStored(o, u)]_vars

\* Order 1 holds a pair of size 1 bought at the offer price 80 (discount
\* 20); the offer has since been removed and the price is 50.
C28_Witness ==
    /\ orders[1].exists
    /\ ItemStored(1, 1) = <<1, <<80, 80, 20>>>>
    /\ zapatos[1] = [precio |-> 50, oferta |-> <<>>]

\* ---------------------------------------------------------------- claim C29
\* DELIVERY_COST values, in cents, and TAX_RATE values, in percent.
DeliveryCosts == {500, 450, 499}
TaxRates == {21, 10}

\* No order; the Zapatos of the two sizes have any price and offer.
InitPrices ==
    /\ InitBase
    /\ \E z1, z2 \in ZapatoValues :
          zapatos = [u \in AllUnits |-> IF u = 1 THEN z1 ELSE IF u = 2 THEN z2 ELSE ListZapato]
    /\ stock = stock0
    /\ orders = [o \in OrderIds |-> NoOrder]
    /\ hist = [o \in OrderIds |-> NoHist]

NextPrices ==
    \E c \in {d \in Carts : PlainCart(d)}, dc \in DeliveryCosts, t \in TaxRates :
        prices_request(1, c, dc, t)

SpecPrices == InitPrices /\ [][NextPrices]_vars

\* The sum of the amounts a of the lines of a cart of one or two lines.
LineSum(a) == a[1] + (IF Len(a) = 2 THEN a[2] ELSE 0)

\* The cart and the catalogue of the example: 2 pairs priced 100 on offer at
\* 80, 1 pair priced 50 without offer.
ExampleCart == <<[talla |-> 1, cantidad |-> 2], [talla |-> 2, cantidad |-> 1]>>
ExampleCatalogue ==
    /\ zapatos[1] = [precio |-> 100, oferta |-> <<80>>]
    /\ zapatos[2] = [precio |-> 50, oferta |-> <<>>]

\* What the claim says of a computed result r for cart c, delivery dc and
\* rate t, where a Zapato has an offer price unless its precioOferta is in
\* none.
PricesAsClaimed(c, dc, t, r, none) ==
    LET offered(z) == z.oferta \notin none
        charge(l) == 100 * l.cantidad * (IF offered(zapatos[l.talla]) THEN zapatos[l.talla].oferta[1]
                                         ELSE zapatos[l.talla].precio)
        saving(l) == IF offered(zapatos[l.talla])
                     THEN 100 * l.cantidad * (zapatos[l.talla].precio - zapatos[l.talla].oferta[1])
                     ELSE 0
        exact == (r.subtotal + dc) * t
    IN /\ r.subtotal = LineSum([k \in 1..Len(c) |-> charge(c[k])])
       /\ r.descuento = LineSum([k \in 1..Len(c) |-> saving(c[k])])
       /\ 2 * (100 * r.impuestos - exact) <= 100
       /\ 2 * (exact - 100 * r.impuestos) <= 100
       /\ r.total = r.subtotal + dc + r.impuestos
       /\ c = ExampleCart /\ ExampleCatalogue /\ dc = 500 /\ t = 21
            => r.subtotal = 21000 /\ r.descuento = 4000 /\ r.impuestos = 4515 /\ r.total = 26015

C30_DuplicateLinesSummed ==
    [][\A p \in Procs :
          (pc[p] = "deduct" /\ loc[p].kind = "reserve" /\ outcome'[p].result = "ok")
          => \A u \in AllUnits :
                /\ Requested(loc[p].cart, u, 1) <= stock[u]
                /\ stock'[u] >= 0]_vars

\* ---------------------------------------------------------------- claim C31
\* C31: once a cleanup has deleted an order, no step recreates an Order row
\* with its id (paid or not) and no notification is sent for it.
C31_ExpiredIsTerminal ==
    [][\A o \in OrderIds :
          hist[o].swept /\ ~orders[o].exists
          => ~orders'[o].exists /\ emails'[o] = emails[o]]_vars

\* ---------------------------------------------------------------- claim C32
\* C32: a request's save keeps what the other requests on the same order have
\* stored: a form that was stored stays stored and a paid order stays paid
\* while the order exists.
C32_NoLostUpdate ==
    [][\A o \in OrderIds :
          orders[o].exists /\ orders'[o].exists
          => /\ orders[o].filled \subseteq orders'[o].filled
             /\ orders[o].pagado => orders'[o].pagado]_vars

\* ---------------------------------------------------------------- claim C33
\* Returns from the gateway with any browser session order, codigo and
\* gateway session, and cleanups.
NextReturn ==
    \/ \E p \in Procs :
        \/ \E s, q \in {0} \cup OrderIds, m \in OrderIds, g \in GatewayAnswers :
              stripe_return_get_session(p, s, q, m, g)
        \/ confirm_save(p)
        \/ cleanup_select(p)
        \/ cleanup_restore(p)
    \/ Tick

SpecReturn == InitPay /\ [][NextReturn]_vars

\* C33: a return goes on to mark paid only the order that the metadata of the
\* queried gateway session names.
C33_PullMarksSessionOrder ==
    [][\A p \in Procs :
          pc'[p] = "confirm_save" /\ loc'[p].kind = "return_session"
          => loc'[p].oid = loc'[p].req[3]]_vars

\* ---------------------------------------------------------------- claim C34
\* Worker p waits for a TallaZapato row lock that worker q holds: p is at a
\* select_for_update().get of reserve_stock or of restore_stock.
WaitsFor(p, q) ==
    LET u == IF pc[p] = "check" THEN loc[p].cart[loc[p].i].talla
             ELSE IF pc[p] = "restore" THEN loc[p].todo[loc[p].i].talla
             ELSE 0
    IN u # 0 /\ RowExists(u) /\ lockTalla[u] = q

\* C34: no two transactions wait for each other's row locks.
C34_NoLockCycle == \A p, q \in Procs : p # q => ~(WaitsFor(p, q) /\ WaitsFor(q, p))

\* ---------------------------------------------------------------- claim C35
\* Configurations of CHECKOUT_FORM_WINDOW_MINUTES and PAYMENT_WINDOW_MINUTES,
\* creation times and times of the check, in minutes.
FormWindows == {0, 1, 10}
PaymentWindows == {0, 1, 5}
CreationTimes == {0, 3}
CheckTimes == 0..MaxTime

NextWindows ==
    \E fw \in FormWindows, pw \in PaymentWindows, cr \in CreationTimes :
        \E t \in {x \in CheckTimes : cr <= x} : window_check(1, fw, pw, cr, t)

SpecWindows == InitReserve /\ [][NextWindows]_vars

\* C35: under every configuration of the windows, an unpaid order whose age
\* is at most form window + payment window is not selected by the cleanup;
\* so no order whose payment would still be accepted is selected.
C35_OpenWindowNotSwept ==
    \A p \in Procs :
        outcome[p].result = "windows"
        => LET r == outcome[p].req
           IN /\ r[4] - r[3] <= r[1] + r[2] => ~r[5]
              /\ r[6] => ~r[5]

\* With the default windows, an order of age 15 is still accepted for
\* payment and is not selected.
C35_Witness == outcome[1] = Answered("windows", <<10, 5, 0, 15, FALSE, TRUE>>)

\* ---------------------------------------------------------------- claim C36
\* The order rows a step makes visible.
NewRows == {o \in OrderIds : ~orders[o].exists /\ orders'[o].exists}

\* C36: a step that changes no Order row's existence (a check, a code
\* collision and its retry, an item insert) leaves every stock as it was; a
\* step that makes an order visible makes exactly one visible, for a creation
\* that had fewer than max_retries collisions, and takes from every stock
\* exactly the quantity the creation's cart asks for.
C36_RetryReservesOnce ==
    [][/\ Cardinality(NewRows) <= 1
       /\ NewRows = {} => stock' = stock
       /\ \A o \in NewRows :
             \E p \in Procs :
                /\ loc[p].kind \in CreateKinds
                /\ loc[p].oid = o \/ loc'[p].oid = o
                /\ loc[p].attempt < max_retries
                /\ \A u \in AllUnits : stock'[u] = stock[u] - Requested(loc[p].cart, u, 1)]_vars

\* Order 1 is complete; the creation of order 2, for one pair of size 1, had
\* four code collisions before its insert succeeded: both orders exist and
\* every stock is the initial one less order 1's items and less that pair.
C36_Witness ==
    /\ orders[1].exists /\ orders[2].exists
    /\ \E p \in Procs :
          /\ pc[p] = "items" /\ loc[p].oid = 2 /\ loc[p].attempt = max_retries - 1
          /\ loc[p].cart = <<[talla |-> 1, cantidad |-> 1]>>
          /\ \A q \in Procs \ {p} : pc[q] = "idle"
    /\ \A u \in AllUnits : stock[u] = stock0[u] - orders[1].items[u] - (IF u = 1 THEN 1 ELSE 0)

\* ---------------------------------------------------------------- claim C37
\* Cleanup runs by one worker while the two waiting orders age minute by
\* minute.
NextBoundary ==
    \/ cleanup_select(1)
    \/ cleanup_restore(1)
    \/ MinutePasses

SpecBoundary == InitPay /\ [][NextBoundary]_vars

\* What a cleanup run that starts in this step does with the unpaid orders,
\* where due(age) says whether an order of that age is to be deleted: the
\* orders that are due are taken into the run's batch or deleted at once, the
\* other ones are neither; and a run that ends has deleted its batch.
SweepsBy(due) ==
    /\ pc[1] = "idle" /\ started' = started + 1
         => \A o \in OrderIds :
               orders[o].exists /\ ~orders[o].pagado
               => IF due[now - orders[o].created]
                  THEN o \in loc'[1].batch \/ ~orders'[o].exists
                  ELSE o \notin loc'[1].batch /\ orders'[o].exists
    /\ pc[1] = "restore" /\ pc'[1] = "idle" => \A o \in loc[1].batch : ~orders'[o].exists

NextPushMeta ==
    \/ \E p \in Procs :
        \/ \E m \in MetaIds, ev \in PushEvents, sig \in Signatures : webhook_post_metadata(p, m, ev, sig)
        \/ confirm_save(p)
    \/ Tick

SpecPushMeta == InitPay /\ [][NextPushMeta]_vars

\* C38: every validly signed push is answered with success, whatever its
\* metadata order id is.
C38_NonNumericIdIsSuccess ==
    \A p \in Procs :
        pc[p] = "idle" /\ outcome[p].req # <<>> /\ SignatureOk(outcome[p].req[3])
        => outcome[p].result = "ok"

\* ---------------------------------------------------------------- claim C39
\* Stock removals by the administrator, concurrent with each other and with
\* reserve_stock calls whose carts name each row once.
NextAdmin ==
    \E p \in Procs :
        \/ \E c \in {d \in Carts : PlainCart(d)} : reserve_stock_begin(p, c)
        \/ reserve_stock_check(p)
        \/ reserve_stock_deduct(p)
        \/ \E u \in Tallas, n \in 1..MaxStock : stock_remove_get(p, u, n)
        \/ stock_remove_save(p)

SpecAdmin == InitReserve /\ [][NextAdmin]_vars

\* C39: the save of a stock removal leaves no row below 0.
C39_RemovalNonNegative ==
    [][\A p \in Procs :
          pc[p] = "remove_save" /\ pc'[p] = "idle"
          => stock'[loc[p].cart[1].talla] >= 0]_vars

====
